---- MODULE Spec2Model ----
(***************************************************************************)
(* Model of src/repeat.py: the __repeat__ decorator and the two wrappers   *)
(* it creates, wrapper_sync (blocking) and wrapper_async (suspending).     *)
(*                                                                         *)
(* A behaviour binds one configuration (tries, delay, exceptions, backoff) *)
(* and then runs invocations of the wrapped operation.  The wrapped        *)
(* operation is a black box: on each call it returns a value or raises an  *)
(* exception, chosen nondeterministically.  Every exception object carries *)
(* the number of the call that raised it, so that "the same exception" is  *)
(* something the model can tell apart from "an exception of the same kind".*)
(*                                                                         *)
(* Durations (delay, backoff) are exact rationals <<numerator,             *)
(* denominator>>; the values used are dyadic, so Python's floats hold them *)
(* exactly.                                                                *)
(***************************************************************************)
EXTENDS Integers, Sequences, FiniteSets, TLC

VARIABLES
    tries,           \* closure variable tries of the created wrapper
    delay,           \* closure variable delay
    exceptions,      \* closure variable exceptions: the set of kinds named
    backoff,         \* closure variable backoff
    callers,         \* the invocations made in this behaviour
    coroutine,       \* coroutine[i]: inspect.iscoroutinefunction(func) of i's func
    identical,       \* TRUE when all callers' operations behave identically
    options,         \* options[i]: the keyword options i's wrapper was bound with
    pc,              \* pc[i]: position of invocation i
    attempt,         \* attempt[i]: the loop variable of `for attempt in range(tries)`
    current_delay,   \* current_delay[i]
    last_exception,  \* last_exception[i]
    calls,           \* calls[i]: how many times func was invoked
    hist,            \* hist[i]: the outcome of each call of func, in order
    waits,           \* waits[i]: the durations passed to time.sleep / asyncio.sleep
    log,             \* log[i]: the notifications sent to the logger
    result,          \* result[i]: what the invocation returned or raised
    cancelled,       \* cancelled[i]: a task cancellation was delivered to i
    trace,           \* trace[i]: the steps of the invocation, in program order
    round            \* round[i]: the number of i's current invocation

vars == <<tries, delay, exceptions, backoff, callers, coroutine, identical,
          options,
          pc, attempt, current_delay, last_exception, calls, hist, waits,
          log, result, cancelled, trace, round>>

config ==
    <<tries, delay, exceptions, backoff, callers, coroutine, identical, options>>

-----------------------------------------------------------------------------
(* Bounds and input sets *)

MaxTries == 3

\* the values the operation may return
Values == {41, 42}

\* the exception kinds the operation itself may raise
RaisedKinds == {"ValueError", "ConnectionError"}

\* the delays and backoffs a binding may name (seconds, exact rationals)
Delays == {<<0, 1>>, <<1, 2>>, <<1, 8>>}
Backoffs == {<<0, 1>>, <<1, 2>>, <<2, 1>>}

\* the `exceptions` arguments a binding may name
ExceptionsArgs ==
    { {"BaseException"}, {"ValueError"}, {"ValueError", "OSError"},
      {"CancelledError"} }

-----------------------------------------------------------------------------
(* Python semantics the wrappers rely on *)

\* The builtin exception hierarchy: each kind's direct base class.
\* asyncio.CancelledError derives from BaseException (Python 3.8 and later).
Base ==
    [ BaseException   |-> "object",
      Exception       |-> "BaseException",
      CancelledError  |-> "BaseException",
      ValueError      |-> "Exception",
      TypeError       |-> "Exception",
      OSError         |-> "Exception",
      ConnectionError |-> "OSError" ]

Kinds == DOMAIN Base

RECURSIVE IsSubclass(_, _)
\* issubclass(k, c): walk k's bases up to object
IsSubclass(k, c) ==
    IF k = c THEN TRUE
    ELSE IF k = "object" THEN FALSE
    ELSE IsSubclass(Base[k], c)

\* a bare `except:` in place of `except exceptions`
CatchesAnything(exc, ex) == TRUE

\* `type(ex) in exceptions`: the kind itself, its subtypes left out
CatchesExactly(exc, ex) == ex.kind \in exc

\* `except exceptions as ex` catches ex iff it is an instance of a named kind
Catches(exc, ex) == \E c \in exc : IsSubclass(ex.kind, c)

RECURSIVE GCD(_, _)
GCD(a, b) == IF b = 0 THEN a ELSE GCD(b, a % b)

\* a rational in lowest terms
Norm(q) ==
    IF q[1] = 0 THEN <<0, 1>>
    ELSE LET g == GCD(q[1], q[2]) IN <<q[1] \div g, q[2] \div g>>

\* `current_delay += backoff` in place of `current_delay *= backoff`
Plus(a, b) == Norm(<<a[1] * b[2] + b[1] * a[2], a[2] * b[2]>>)

\* current_delay * backoff
Times(a, b) == Norm(<<a[1] * b[1], a[2] * b[2]>>)

\* `current_delay >= 0` in place of `current_delay > 0`
NotNegative(q) == q[1] >= 0

\* current_delay > 0
Positive(q) == q[1] > 0

\* f"{current_delay:.2f}": the duration in hundredths, rounded half to even
Format2f(q) ==
    LET n == q[1] * 100
        fl == n \div q[2]
        rem == n % q[2]
    IN  IF 2 * rem > q[2] THEN fl + 1
        ELSE IF 2 * rem < q[2] THEN fl
        ELSE IF fl % 2 = 0 THEN fl ELSE fl + 1

\* None, the initial value of last_exception
None == [kind |-> "None", id |-> 0]

\* the exception object raised by the call numbered n
Exc(k, n) == [kind |-> k, id |-> n]

\* `raise last_exception`: raising None raises a TypeError made on the spot
RaiseStmt(ex) ==
    IF ex = None THEN [type |-> "raise", value |-> 0, ex |-> Exc("TypeError", 0)]
    ELSE [type |-> "raise", value |-> 0, ex |-> ex]

\* `func(...)` evaluated and its value dropped
ReturnNothing(v) == [type |-> "return", value |-> 0, ex |-> None]

\* `return func(...)`
ReturnStmt(v) == [type |-> "return", value |-> v, ex |-> None]

\* an exception leaving the wrapper through no except clause
Propagate(ex) == [type |-> "raise", value |-> 0, ex |-> ex]

Pending == [type |-> "pending", value |-> 0, ex |-> None]

\* the loop index logged as it is, without the `+ 1`
WarningZeroBased(a, t, ex, d) ==
    [level |-> "warning", attempt |-> a, tries |-> t, ex |-> ex,
     delay |-> Format2f(d)]

\* the warning with the delay of the wait after the next one
WarningNextDelay(a, t, ex, d) ==
    [level |-> "warning", attempt |-> a + 1, tries |-> t, ex |-> ex,
     delay |-> Format2f(Times(d, backoff))]

\* logger.warning(f"Attempt {attempt + 1}/{tries} failed: {ex}. Retrying in {current_delay:.2f}s...")
\* (ex stands for the failure whose description the message carries)
Warning(a, t, ex, d) ==
    [level |-> "warning", attempt |-> a + 1, tries |-> t, ex |-> ex,
     delay |-> Format2f(d)]

\* logger.error(f"All {tries} attempts failed. Last error: {ex}")
Error(t, ex) ==
    [level |-> "error", attempt |-> 0, tries |-> t, ex |-> ex, delay |-> 0]

\* a loop that runs its body once more, for attempt = tries as well
InRangeInclusive(a, t) == a <= t

\* `for attempt in range(tries)`: the loop runs its body for this attempt
InRange(a, t) == a < t

\* `if attempt < tries`, which holds for the last attempt as well
NotLastLoose(a, t) == a < t

\* `if attempt < tries - 1`: this is not the last attempt
NotLast(a, t) == a < t - 1

\* the first failure kept instead of the latest
CaughtFirst(old, ex) == IF old = None THEN ex ELSE old

\* `last_exception = ex`: the new value of last_exception
Caught(old, ex) == ex

-----------------------------------------------------------------------------
(* Binding: __repeat__ *)

DefaultTries == 5
DefaultDelay == <<0, 1>>
DefaultExceptions == {"Exception"}
\* a default backoff of 2.0
DefaultBackoffDouble == <<2, 1>>

DefaultBackoff == <<1, 1>>

NoOptions == [x \in {} |-> 0]

\* the keyword options a binding may pass; a missing key takes its default
Options ==
    { t @@ d @@ e @@ b :
        t \in {[tries |-> n] : n \in 0..MaxTries},
        d \in {NoOptions} \cup {[delay |-> x] : x \in Delays},
        e \in {NoOptions} \cup {[exceptions |-> x] : x \in ExceptionsArgs},
        b \in {NoOptions} \cup {[backoff |-> x] : x \in Backoffs} }
    \cup {NoOptions}

\* __repeat__(**opts): the values the created wrapper closes over
__repeat__(opts) ==
    [ tries      |-> IF "tries" \in DOMAIN opts THEN opts.tries ELSE DefaultTries,
      delay      |-> IF "delay" \in DOMAIN opts THEN opts.delay ELSE DefaultDelay,
      exceptions |-> IF "exceptions" \in DOMAIN opts THEN opts.exceptions
                     ELSE DefaultExceptions,
      backoff    |-> IF "backoff" \in DOMAIN opts THEN opts.backoff
                     ELSE DefaultBackoff ]

\* decorator_repeat(func): which wrapper is created for func
decorator_repeat(isCoroutineFunction) ==
    IF isCoroutineFunction THEN "wrapper_async" ELSE "wrapper_sync"

Bound(opts) ==
    LET c == __repeat__(opts) IN
    /\ tries = c.tries
    /\ delay = c.delay
    /\ exceptions = c.exceptions
    /\ backoff = c.backoff

Fresh ==
    /\ pc = [i \in callers |-> "idle"]
    /\ attempt = [i \in callers |-> 0]
    /\ current_delay = [i \in callers |-> <<0, 1>>]
    /\ last_exception = [i \in callers |-> None]
    /\ calls = [i \in callers |-> 0]
    /\ hist = [i \in callers |-> <<>>]
    /\ waits = [i \in callers |-> <<>>]
    /\ log = [i \in callers |-> <<>>]
    /\ result = [i \in callers |-> Pending]
    /\ cancelled = [i \in callers |-> FALSE]
    /\ trace = [i \in callers |-> <<>>]
    /\ round = [i \in callers |-> 1]

\* one operation, blocking or suspending, bound and invoked once
Init ==
    /\ callers = {1}
    /\ \E opts \in Options : Bound(opts) /\ options = [i \in callers |-> opts]
    /\ coroutine \in [callers -> BOOLEAN]
    /\ identical = FALSE
    /\ Fresh

-----------------------------------------------------------------------------
(* The wrapped operation *)

\* the outcome o of i's call agrees with what the other callers' operations
\* did on the call of the same number, when the operations behave identically
Agrees(i, o) ==
    identical =>
        \A j \in callers \ {i} :
            Len(hist[j]) >= calls[i] => hist[j][calls[i]] = o

\* the invocation i performs the steps evs, in this order
Step(i, evs) == trace' = [trace EXCEPT ![i] = @ \o evs]

Returned(v) == [type |-> "return", value |-> v, kind |-> "None"]
Raised(k) == [type |-> "raise", value |-> 0, kind |-> k]

-----------------------------------------------------------------------------
(* wrapper_sync *)

\* line 52 alone: current_delay is set when the operation is bound and is not
\* set again when the wrapper is entered
sync_enter_kept(i) ==
    /\ pc[i] = "idle"
    /\ decorator_repeat(coroutine[i]) = "wrapper_sync"
    /\ last_exception' = [last_exception EXCEPT ![i] = None]
    /\ current_delay' = [current_delay EXCEPT ![i] =
                           IF round[i] = 1 THEN delay ELSE @]
    /\ attempt' = [attempt EXCEPT ![i] = 0]
    /\ pc' = [pc EXCEPT ![i] = "loop"]
    /\ Step(i, << <<"enter", 0>> >>)
    /\ UNCHANGED <<config, round, calls, hist, waits, log, result, cancelled>>

\* lines 52-53
sync_enter(i) ==
    /\ pc[i] = "idle"
    /\ decorator_repeat(coroutine[i]) = "wrapper_sync"
    /\ last_exception' = [last_exception EXCEPT ![i] = None]
    /\ current_delay' = [current_delay EXCEPT ![i] = delay]
    /\ attempt' = [attempt EXCEPT ![i] = 0]
    /\ pc' = [pc EXCEPT ![i] = "loop"]
    /\ Step(i, << <<"enter", 0>> >>)
    /\ UNCHANGED <<config, round, calls, hist, waits, log, result, cancelled>>

\* line 55: the next iteration calls func; line 74 when range(tries) is used up
sync_for(i) ==
    /\ pc[i] = "loop"
    /\ decorator_repeat(coroutine[i]) = "wrapper_sync"
    /\ IF InRange(attempt[i], tries)
       THEN /\ pc' = [pc EXCEPT ![i] = "calling"]
            /\ calls' = [calls EXCEPT ![i] = @ + 1]
            /\ Step(i, << <<"call", calls[i] + 1>> >>)
            /\ UNCHANGED result
       ELSE /\ pc' = [pc EXCEPT ![i] = "done"]
            /\ result' = [result EXCEPT ![i] = RaiseStmt(last_exception[i])]
            /\ Step(i, << <<"raise", calls[i]>> >>)
            /\ UNCHANGED calls
    /\ UNCHANGED <<config, round, attempt, current_delay, last_exception, hist, waits,
                   log, cancelled>>

\* line 57: func returned v
sync_return(i, v) ==
    /\ pc[i] = "calling"
    /\ decorator_repeat(coroutine[i]) = "wrapper_sync"
    /\ Agrees(i, Returned(v))
    /\ hist' = [hist EXCEPT ![i] = Append(@, Returned(v))]
    /\ result' = [result EXCEPT ![i] = ReturnStmt(v)]
    /\ pc' = [pc EXCEPT ![i] = "done"]
    /\ Step(i, << <<"return", calls[i]>> >>)
    /\ UNCHANGED <<config, round, attempt, current_delay, last_exception, calls, waits,
                   log, cancelled>>

\* lines 58-72: func raised an exception of kind k
sync_except(i, k) ==
    LET ex == Exc(k, calls[i]) IN
    /\ pc[i] = "calling"
    /\ decorator_repeat(coroutine[i]) = "wrapper_sync"
    /\ Agrees(i, Raised(k))
    /\ hist' = [hist EXCEPT ![i] = Append(@, Raised(k))]
    /\ IF Catches(exceptions, ex)
       THEN /\ last_exception' = [last_exception EXCEPT ![i] = Caught(@, ex)]
            /\ UNCHANGED result
            /\ IF NotLast(attempt[i], tries)
               THEN /\ log' = [log EXCEPT ![i] =
                                 Append(@, Warning(attempt[i], tries, ex,
                                                   current_delay[i]))]
                    /\ IF Positive(current_delay[i])
                       THEN /\ waits' = [waits EXCEPT ![i] =
                                           Append(@, current_delay[i])]
                            /\ pc' = [pc EXCEPT ![i] = "sleeping"]
                            /\ Step(i, << <<"caught", calls[i]>>,
                                           <<"warning", calls[i]>>,
                                           <<"sleep", calls[i]>> >>)
                            /\ UNCHANGED <<current_delay, attempt>>
                       ELSE /\ current_delay' = [current_delay EXCEPT ![i] =
                                                   Times(@, backoff)]
                            /\ attempt' = [attempt EXCEPT ![i] = @ + 1]
                            /\ pc' = [pc EXCEPT ![i] = "loop"]
                            /\ Step(i, << <<"caught", calls[i]>>,
                                           <<"warning", calls[i]>>,
                                           <<"scale", calls[i]>> >>)
                            /\ UNCHANGED waits
               ELSE /\ log' = [log EXCEPT ![i] = Append(@, Error(tries, ex))]
                    /\ attempt' = [attempt EXCEPT ![i] = @ + 1]
                    /\ pc' = [pc EXCEPT ![i] = "loop"]
                    /\ Step(i, << <<"caught", calls[i]>>,
                                   <<"error", calls[i]>> >>)
                    /\ UNCHANGED <<current_delay, waits>>
       ELSE /\ result' = [result EXCEPT ![i] = Propagate(ex)]
            /\ pc' = [pc EXCEPT ![i] = "done"]
            /\ Step(i, << <<"propagate", calls[i]>> >>)
            /\ UNCHANGED <<last_exception, log, waits, current_delay, attempt>>
    /\ UNCHANGED <<config, round, calls, cancelled>>

\* time.sleep returned, with current_delay kept in one cell that all the
\* invocations of the wrapper share
sync_wake_shared(i) ==
    /\ pc[i] = "sleeping"
    /\ decorator_repeat(coroutine[i]) = "wrapper_sync"
    /\ current_delay' = [j \in callers |-> Times(current_delay[i], backoff)]
    /\ attempt' = [attempt EXCEPT ![i] = @ + 1]
    /\ pc' = [pc EXCEPT ![i] = "loop"]
    /\ Step(i, << <<"woke", calls[i]>>, <<"scale", calls[i]>> >>)
    /\ UNCHANGED <<config, round, last_exception, calls, hist, waits, log, result,
                   cancelled>>

\* time.sleep returned and line 70 is left out
sync_wake_flat(i) ==
    /\ pc[i] = "sleeping"
    /\ decorator_repeat(coroutine[i]) = "wrapper_sync"
    /\ attempt' = [attempt EXCEPT ![i] = @ + 1]
    /\ pc' = [pc EXCEPT ![i] = "loop"]
    /\ Step(i, << <<"woke", calls[i]>> >>)
    /\ UNCHANGED <<config, round, current_delay, last_exception, calls, hist, waits,
                   log, result, cancelled>>

\* lines 68-70: time.sleep returned
sync_wake(i) ==
    /\ pc[i] = "sleeping"
    /\ decorator_repeat(coroutine[i]) = "wrapper_sync"
    /\ current_delay' = [current_delay EXCEPT ![i] = Times(@, backoff)]
    /\ attempt' = [attempt EXCEPT ![i] = @ + 1]
    /\ pc' = [pc EXCEPT ![i] = "loop"]
    /\ Step(i, << <<"woke", calls[i]>>, <<"scale", calls[i]>> >>)
    /\ UNCHANGED <<config, round, last_exception, calls, hist, waits, log, result,
                   cancelled>>

-----------------------------------------------------------------------------
(* wrapper_async *)

\* lines 88-89
async_enter(i) ==
    /\ pc[i] = "idle"
    /\ decorator_repeat(coroutine[i]) = "wrapper_async"
    /\ last_exception' = [last_exception EXCEPT ![i] = None]
    /\ current_delay' = [current_delay EXCEPT ![i] = delay]
    /\ attempt' = [attempt EXCEPT ![i] = 0]
    /\ pc' = [pc EXCEPT ![i] = "loop"]
    /\ Step(i, << <<"enter", 0>> >>)
    /\ UNCHANGED <<config, round, calls, hist, waits, log, result, cancelled>>

\* line 91: the next iteration awaits executor(); line 110 when range(tries)
\* is used up
async_for(i) ==
    /\ pc[i] = "loop"
    /\ decorator_repeat(coroutine[i]) = "wrapper_async"
    /\ IF InRange(attempt[i], tries)
       THEN /\ pc' = [pc EXCEPT ![i] = "calling"]
            /\ calls' = [calls EXCEPT ![i] = @ + 1]
            /\ Step(i, << <<"call", calls[i] + 1>> >>)
            /\ UNCHANGED result
       ELSE /\ pc' = [pc EXCEPT ![i] = "done"]
            /\ result' = [result EXCEPT ![i] = RaiseStmt(last_exception[i])]
            /\ Step(i, << <<"raise", calls[i]>> >>)
            /\ UNCHANGED calls
    /\ UNCHANGED <<config, round, attempt, current_delay, last_exception, hist, waits,
                   log, cancelled>>

\* line 93: executor() returned v
async_return(i, v) ==
    /\ pc[i] = "calling"
    /\ decorator_repeat(coroutine[i]) = "wrapper_async"
    /\ Agrees(i, Returned(v))
    /\ hist' = [hist EXCEPT ![i] = Append(@, Returned(v))]
    /\ result' = [result EXCEPT ![i] = ReturnStmt(v)]
    /\ pc' = [pc EXCEPT ![i] = "done"]
    /\ Step(i, << <<"return", calls[i]>> >>)
    /\ UNCHANGED <<config, round, attempt, current_delay, last_exception, calls, waits,
                   log, cancelled>>

\* the handler with `asyncio.sleep(current_delay)` called and not awaited
async_handler_unawaited(i, ex) ==
    /\ hist' = [hist EXCEPT ![i] = Append(@, Raised(ex.kind))]
    /\ IF Catches(exceptions, ex)
       THEN /\ last_exception' = [last_exception EXCEPT ![i] = Caught(@, ex)]
            /\ UNCHANGED result
            /\ attempt' = [attempt EXCEPT ![i] = @ + 1]
            /\ pc' = [pc EXCEPT ![i] = "loop"]
            /\ IF NotLast(attempt[i], tries)
               THEN /\ log' = [log EXCEPT ![i] =
                                 Append(@, Warning(attempt[i], tries, ex,
                                                   current_delay[i]))]
                    /\ current_delay' = [current_delay EXCEPT ![i] =
                                           Times(@, backoff)]
                    /\ IF Positive(current_delay[i])
                       THEN /\ waits' = [waits EXCEPT ![i] =
                                           Append(@, current_delay[i])]
                            /\ Step(i, << <<"caught", calls[i]>>,
                                           <<"warning", calls[i]>>,
                                           <<"sleep", calls[i]>>,
                                           <<"scale", calls[i]>> >>)
                       ELSE /\ Step(i, << <<"caught", calls[i]>>,
                                           <<"warning", calls[i]>>,
                                           <<"scale", calls[i]>> >>)
                            /\ UNCHANGED waits
               ELSE /\ log' = [log EXCEPT ![i] = Append(@, Error(tries, ex))]
                    /\ Step(i, << <<"caught", calls[i]>>,
                                   <<"error", calls[i]>> >>)
                    /\ UNCHANGED <<current_delay, waits>>
       ELSE /\ result' = [result EXCEPT ![i] = Propagate(ex)]
            /\ pc' = [pc EXCEPT ![i] = "done"]
            /\ Step(i, << <<"propagate", calls[i]>> >>)
            /\ UNCHANGED <<last_exception, log, waits, current_delay, attempt>>

\* lines 94-108: the exception ex came out of `await executor()`
async_handler(i, ex) ==
    /\ hist' = [hist EXCEPT ![i] = Append(@, Raised(ex.kind))]
    /\ IF Catches(exceptions, ex)
       THEN /\ last_exception' = [last_exception EXCEPT ![i] = Caught(@, ex)]
            /\ UNCHANGED result
            /\ IF NotLast(attempt[i], tries)
               THEN /\ log' = [log EXCEPT ![i] =
                                 Append(@, Warning(attempt[i], tries, ex,
                                                   current_delay[i]))]
                    /\ IF Positive(current_delay[i])
                       THEN /\ waits' = [waits EXCEPT ![i] =
                                           Append(@, current_delay[i])]
                            /\ pc' = [pc EXCEPT ![i] = "sleeping"]
                            /\ Step(i, << <<"caught", calls[i]>>,
                                           <<"warning", calls[i]>>,
                                           <<"sleep", calls[i]>> >>)
                            /\ UNCHANGED <<current_delay, attempt>>
                       ELSE /\ current_delay' = [current_delay EXCEPT ![i] =
                                                   Times(@, backoff)]
                            /\ attempt' = [attempt EXCEPT ![i] = @ + 1]
                            /\ pc' = [pc EXCEPT ![i] = "loop"]
                            /\ Step(i, << <<"caught", calls[i]>>,
                                           <<"warning", calls[i]>>,
                                           <<"scale", calls[i]>> >>)
                            /\ UNCHANGED waits
               ELSE /\ log' = [log EXCEPT ![i] = Append(@, Error(tries, ex))]
                    /\ attempt' = [attempt EXCEPT ![i] = @ + 1]
                    /\ pc' = [pc EXCEPT ![i] = "loop"]
                    /\ Step(i, << <<"caught", calls[i]>>,
                                   <<"error", calls[i]>> >>)
                    /\ UNCHANGED <<current_delay, waits>>
       ELSE /\ result' = [result EXCEPT ![i] = Propagate(ex)]
            /\ pc' = [pc EXCEPT ![i] = "done"]
            /\ Step(i, << <<"propagate", calls[i]>> >>)
            /\ UNCHANGED <<last_exception, log, waits, current_delay, attempt>>

\* lines 93-108: func raised an exception of kind k
async_except(i, k) ==
    /\ pc[i] = "calling"
    /\ decorator_repeat(coroutine[i]) = "wrapper_async"
    /\ Agrees(i, Raised(k))
    /\ async_handler(i, Exc(k, calls[i]))
    /\ UNCHANGED <<config, round, calls, cancelled>>

\* lines 93-108: the task is cancelled while it awaits executor(); the event
\* loop throws CancelledError into the await
async_cancel_call(i) ==
    /\ pc[i] = "calling"
    /\ decorator_repeat(coroutine[i]) = "wrapper_async"
    /\ cancelled' = [cancelled EXCEPT ![i] = TRUE]
    /\ async_handler(i, Exc("CancelledError", calls[i]))
    /\ UNCHANGED <<config, round, calls>>

\* line 104: the task is cancelled while it awaits asyncio.sleep; the
\* CancelledError is raised inside the except block, which no clause guards
async_cancel_sleep(i) ==
    /\ pc[i] = "sleeping"
    /\ decorator_repeat(coroutine[i]) = "wrapper_async"
    /\ cancelled' = [cancelled EXCEPT ![i] = TRUE]
    /\ result' = [result EXCEPT ![i] = Propagate(Exc("CancelledError", 0))]
    /\ pc' = [pc EXCEPT ![i] = "done"]
    /\ Step(i, << <<"cancelled", calls[i]>> >>)
    /\ UNCHANGED <<config, round, attempt, current_delay, last_exception, calls, hist,
                   waits, log>>

\* asyncio.sleep returned and line 106 is left out
async_wake_flat(i) ==
    /\ pc[i] = "sleeping"
    /\ decorator_repeat(coroutine[i]) = "wrapper_async"
    /\ attempt' = [attempt EXCEPT ![i] = @ + 1]
    /\ pc' = [pc EXCEPT ![i] = "loop"]
    /\ Step(i, << <<"woke", calls[i]>> >>)
    /\ UNCHANGED <<config, round, current_delay, last_exception, calls, hist, waits,
                   log, result, cancelled>>

\* lines 104-106: asyncio.sleep returned
async_wake(i) ==
    /\ pc[i] = "sleeping"
    /\ decorator_repeat(coroutine[i]) = "wrapper_async"
    /\ current_delay' = [current_delay EXCEPT ![i] = Times(@, backoff)]
    /\ attempt' = [attempt EXCEPT ![i] = @ + 1]
    /\ pc' = [pc EXCEPT ![i] = "loop"]
    /\ Step(i, << <<"woke", calls[i]>>, <<"scale", calls[i]>> >>)
    /\ UNCHANGED <<config, round, last_exception, calls, hist, waits, log, result,
                   cancelled>>

-----------------------------------------------------------------------------

Next ==
    \/ \E i \in callers : sync_enter(i)
    \/ \E i \in callers : sync_for(i)
    \/ \E i \in callers, v \in Values : sync_return(i, v)
    \/ \E i \in callers, k \in RaisedKinds : sync_except(i, k)
    \/ \E i \in callers : sync_wake(i)
    \/ \E i \in callers : async_enter(i)
    \/ \E i \in callers : async_for(i)
    \/ \E i \in callers, v \in Values : async_return(i, v)
    \/ \E i \in callers, k \in RaisedKinds : async_except(i, k)
    \/ \E i \in callers : async_cancel_call(i)
    \/ \E i \in callers : async_cancel_sleep(i)
    \/ \E i \in callers : async_wake(i)

\* a blocking and a suspending operation that behave identically, bound with
\* the same options, each invoked once
InitPair ==
    /\ callers = {1, 2}
    /\ \E opts \in Options : Bound(opts) /\ options = [i \in callers |-> opts]
    /\ coroutine = (1 :> FALSE) @@ (2 :> TRUE)
    /\ identical = TRUE
    /\ Fresh

SpecPair == InitPair /\ [][Next]_vars

-----------------------------------------------------------------------------
(* Two concurrent invocations of one bound operation *)

\* the options of the bindings invoked concurrently
OptionsConcurrent ==
    { t @@ o :
        t \in {[tries |-> n] : n \in 1..MaxTries},
        o \in { [delay |-> <<1, 2>>, backoff |-> <<2, 1>>],
                [delay |-> <<1, 2>>, backoff |-> <<1, 2>>,
                 exceptions |-> {"ValueError"}],
                [exceptions |-> {"BaseException"}] } }

\* one operation, blocking (two threads) or suspending (two tasks), bound
\* once and invoked by two callers at the same time
InitConcurrent ==
    /\ callers = {1, 2}
    /\ \E opts \in OptionsConcurrent :
          Bound(opts) /\ options = [i \in callers |-> opts]
    /\ \E c \in BOOLEAN : coroutine = [i \in callers |-> c]
    /\ identical = FALSE
    /\ Fresh

SpecConcurrent == InitConcurrent /\ [][Next]_vars

-----------------------------------------------------------------------------
(* One bound operation invoked again after an invocation has ended *)

\* how many times in a row the bound operation is invoked
MaxRounds == 2

\* the caller invokes the bound operation again: a new frame of the wrapper,
\* whose locals hold nothing yet (here: whatever the last frame left)
invoke_again(i) ==
    /\ pc[i] = "done"
    /\ round[i] < MaxRounds
    /\ round' = [round EXCEPT ![i] = @ + 1]
    /\ pc' = [pc EXCEPT ![i] = "idle"]
    /\ calls' = [calls EXCEPT ![i] = 0]
    /\ hist' = [hist EXCEPT ![i] = <<>>]
    /\ waits' = [waits EXCEPT ![i] = <<>>]
    /\ log' = [log EXCEPT ![i] = <<>>]
    /\ result' = [result EXCEPT ![i] = Pending]
    /\ cancelled' = [cancelled EXCEPT ![i] = FALSE]
    /\ Step(i, << <<"again", round[i] + 1>> >>)
    /\ UNCHANGED <<config, attempt, current_delay, last_exception>>

InitAgain ==
    /\ callers = {1}
    /\ \E opts \in OptionsConcurrent :
          Bound(opts) /\ options = [i \in callers |-> opts]
    /\ coroutine \in [callers -> BOOLEAN]
    /\ identical = FALSE
    /\ Fresh

NextAgain == Next \/ \E i \in callers : invoke_again(i)

SpecAgain == InitAgain /\ [][NextAgain]_vars

-----------------------------------------------------------------------------
(* Binding with options left out, then with every option written out *)

\* the bindings that leave options out: none given, or only some
OptionsLeftOut ==
    { NoOptions,
      [delay |-> <<1, 2>>],
      [delay |-> <<1, 2>>, backoff |-> <<1, 2>>],
      [exceptions |-> {"ValueError"}, delay |-> <<1, 2>>] }

\* tries=5, delay=0, exceptions=Exception, backoff=1.0, written out
ExplicitDefaults ==
    [tries |-> 5, delay |-> <<0, 1>>, exceptions |-> {"Exception"},
     backoff |-> <<1, 1>>]

\* opts with every option it leaves out written out
WrittenOut(opts) ==
    [key \in DOMAIN ExplicitDefaults |->
        IF key \in DOMAIN opts THEN opts[key] ELSE ExplicitDefaults[key]]

\* one operation bound with options left out and invoked once
InitLeftOut ==
    /\ callers = {1}
    /\ \E opts \in OptionsLeftOut :
          Bound(opts) /\ options = [i \in callers |-> opts]
    /\ coroutine \in [callers -> BOOLEAN]
    /\ identical = TRUE
    /\ Fresh

\* once invocation 1 is over, an operation of the same behaviour is bound by
\* __repeat__(**WrittenOut(opts)); invocation 2 is of that wrapper
bind_written_out ==
    LET opts == WrittenOut(options[1])
        c == __repeat__(opts)
    IN  /\ callers = {1}
        /\ pc[1] = "done"
        /\ callers' = {1, 2}
        /\ options' = options @@ (2 :> opts)
        /\ coroutine' = coroutine @@ (2 :> coroutine[1])
        /\ tries' = c.tries
        /\ delay' = c.delay
        /\ exceptions' = c.exceptions
        /\ backoff' = c.backoff
        /\ pc' = pc @@ (2 :> "idle")
        /\ attempt' = attempt @@ (2 :> 0)
        /\ current_delay' = current_delay @@ (2 :> <<0, 1>>)
        /\ last_exception' = last_exception @@ (2 :> None)
        /\ calls' = calls @@ (2 :> 0)
        /\ hist' = hist @@ (2 :> <<>>)
        /\ waits' = waits @@ (2 :> <<>>)
        /\ log' = log @@ (2 :> <<>>)
        /\ result' = result @@ (2 :> Pending)
        /\ cancelled' = cancelled @@ (2 :> FALSE)
        /\ trace' = trace @@ (2 :> <<>>)
        /\ round' = round @@ (2 :> 1)
        /\ UNCHANGED identical

NextLeftOut == Next \/ bind_written_out

SpecLeftOut == InitLeftOut /\ [][NextLeftOut]_vars

Spec == Init /\ [][Next]_vars

\* Every attempt of the operation ends (returns or raises), every sleep ends,
\* and the interpreter keeps running the wrapper: a step that can be taken is
\* taken in the end.
SpecLive == Init /\ [][Next]_vars /\ WF_vars(Next)

-----------------------------------------------------------------------------
(* Vocabulary of the properties *)

\* The subtype relation of the kinds an attempt can fail with, written out:
\* <<k, c>> is here iff k is c or a subtype of c.
IsA ==
    { <<"ValueError", "ValueError">>, <<"ValueError", "Exception">>,
      <<"ValueError", "BaseException">>,
      <<"ConnectionError", "ConnectionError">>, <<"ConnectionError", "OSError">>,
      <<"ConnectionError", "Exception">>, <<"ConnectionError", "BaseException">>,
      <<"CancelledError", "CancelledError">>,
      <<"CancelledError", "BaseException">> }

\* a failure of kind k is retryable under the bound configuration
Retryable(k) == \E c \in exceptions : <<k, c>> \in IsA

\* the n-th attempt of i failed with a retryable failure
FailedRetryably(i, n) ==
    hist[i][n].type = "raise" /\ Retryable(hist[i][n].kind)

\* the n-th attempt of i failed with a failure that is not retryable
FailedOtherwise(i, n) ==
    hist[i][n].type = "raise" /\ ~Retryable(hist[i][n].kind)

\* i ended because its task was cancelled during an inter-attempt delay
CancelledInDelay(i) ==
    pc[i] = "done" /\ result[i] = Propagate(Exc("CancelledError", 0))

\* the failure object the n-th attempt of i raised
Failure(i, n) == [kind |-> hist[i][n].kind, id |-> n]

-----------------------------------------------------------------------------
(* C1 *)

\* C1: with tries = N >= 1, in either mode, an invocation whose every attempt
\* failed with a retryable failure has invoked the operation exactly N times
\* when it ends, and it ends by raising the failure of the N-th attempt.
C1_ExhaustedRaisesLast ==
    \A i \in callers :
        ( /\ pc[i] = "done"
          /\ tries >= 1
          /\ ~CancelledInDelay(i)
          /\ \A n \in 1..Len(hist[i]) : FailedRetryably(i, n) )
        => /\ calls[i] = tries
           /\ Len(hist[i]) = tries
           /\ result[i].type = "raise"
           /\ result[i].ex = Failure(i, tries)

\* an exhausted invocation of three tries whose first and last failures differ
C1_Witness ==
    \E i \in callers :
        /\ pc[i] = "done"
        /\ tries = 3
        /\ calls[i] = 3
        /\ \A n \in 1..3 : FailedRetryably(i, n)
        /\ hist[i][1].kind # hist[i][3].kind
        /\ result[i].ex = Failure(i, 3)

-----------------------------------------------------------------------------
(* C2 *)

\* C2: an attempt K that succeeds is the last call of the invocation: the
\* operation has been invoked exactly K <= tries times, the invocation is
\* over, and it returned the value of the K-th attempt and raised nothing.
C2_SuccessReturnsKth ==
    \A i \in callers :
        \A K \in 1..Len(hist[i]) :
            hist[i][K].type = "return"
            => /\ K = Len(hist[i])
               /\ calls[i] = K
               /\ K <= tries
               /\ \A n \in 1..(K - 1) : FailedRetryably(i, n)
               /\ pc[i] = "done"
               /\ result[i].type = "return"
               /\ result[i].value = hist[i][K].value
               /\ result[i].ex = None

\* two retryable failures, then a success on the third and last attempt
C2_Witness ==
    \E i \in callers :
        /\ tries = 3
        /\ Len(hist[i]) = 3
        /\ FailedRetryably(i, 1) /\ FailedRetryably(i, 2)
        /\ hist[i][3] = Returned(42)
        /\ result[i] = ReturnStmt(42)

-----------------------------------------------------------------------------
(* C3 *)

\* C3: an attempt K that fails with a failure that is not retryable ends the
\* invocation at once: that failure is what the invocation raises, the
\* operation is not invoked again, no notification names that failure, and
\* no wait follows it (every wait follows a warning about an earlier attempt).
C3_NonRetryableFailsFast ==
    \A i \in callers :
        \A K \in 1..Len(hist[i]) :
            FailedOtherwise(i, K)
            => /\ K = Len(hist[i])
               /\ calls[i] = K
               /\ pc[i] = "done"
               /\ result[i].type = "raise"
               /\ result[i].ex = Failure(i, K)
               /\ \A m \in 1..Len(log[i]) : log[i][m].ex.id < K
               /\ Len(log[i]) = K - 1
               /\ Len(waits[i]) <= K - 1

\* a failure that is not retryable on the second attempt of three, after one
\* wait
C3_Witness ==
    /\ \E i \in callers :
        /\ tries = 3
        /\ Len(hist[i]) = 2
        /\ FailedRetryably(i, 1)
        /\ FailedOtherwise(i, 2)
        /\ pc[i] = "done"
        /\ Len(waits[i]) = 1

-----------------------------------------------------------------------------
(* C4 *)

\* C4: in suspending mode, once a task cancellation has been delivered to an
\* invocation (during the call or during the delay), the invocation is over
\* and has raised the cancellation, and no notification names it.
C4_CancellationPropagates ==
    \A i \in callers :
        cancelled[i]
        => /\ pc[i] = "done"
           /\ result[i].type = "raise"
           /\ result[i].ex.kind = "CancelledError"
           /\ \A m \in 1..Len(log[i]) : log[i][m].ex.kind # "CancelledError"

\* Extent of the divergence: a cancellation delivered during the delay, or
\* under an `exceptions` that does not match CancelledError, does propagate.
C4_CancellationPropagatesUnlessNamed ==
    \A i \in callers :
        (cancelled[i] /\ ~Retryable("CancelledError"))
        => /\ pc[i] = "done"
           /\ result[i].type = "raise"
           /\ result[i].ex.kind = "CancelledError"
           /\ \A m \in 1..Len(log[i]) : log[i][m].ex.kind # "CancelledError"

-----------------------------------------------------------------------------
(* C5 *)

\* C5: the bound configuration has tries >= 1, and an invocation that is over
\* has invoked the underlying operation at least once.
C5_TriesAtLeastOne ==
    /\ tries >= 1
    /\ \A i \in callers : pc[i] = "done" => calls[i] >= 1

-----------------------------------------------------------------------------
(* C6 *)

\* C6: a failure that an invocation raises is the failure object one of its
\* attempts raised (a cancellation delivered during the delay aside): it is
\* never one the wrapper made.
C6_OnlyOperationFailuresEscape ==
    \A i \in callers :
        (pc[i] = "done" /\ result[i].type = "raise" /\ ~CancelledInDelay(i))
        => /\ result[i].ex.id \in 1..Len(hist[i])
           /\ hist[i][result[i].ex.id].type = "raise"
           /\ result[i].ex = Failure(i, result[i].ex.id)

\* Extent of the divergence: it is confined to tries < 1.
C6_OnlyOperationFailuresEscapeWhenTried ==
    tries >= 1 => C6_OnlyOperationFailuresEscape

-----------------------------------------------------------------------------
(* C7 *)

RECURSIVE Pow(_, _)
Pow(b, n) == IF n = 0 THEN 1 ELSE b * Pow(b, n - 1)

\* the duration w equals d0 * b^n, by cross-multiplication
IsScaled(w, d0, b, n) ==
    w[1] * d0[2] * Pow(b[2], n) = w[2] * d0[1] * Pow(b[1], n)

\* C7: with delay d0 > 0 and backoff b > 0 (and tries >= 1), while every
\* attempt so far failed with a retryable failure: the k-th wait lasts
\* d0 * b^(k-1); the attempt numbered k+1 is called after exactly k waits;
\* and when the invocation is over it has made tries calls and tries - 1
\* waits.  For delay 1/2, backoff 2, tries 3 the waits are 1/2 and 1.
C7_WaitsGrowGeometrically ==
    \A i \in callers :
        ( /\ Positive(delay) /\ Positive(backoff) /\ tries >= 1
          /\ ~CancelledInDelay(i)
          /\ \A n \in 1..Len(hist[i]) : FailedRetryably(i, n) )
        => /\ \A k \in 1..Len(waits[i]) :
                IsScaled(waits[i][k], delay, backoff, k - 1)
           /\ pc[i] = "calling" => Len(waits[i]) = calls[i] - 1
           /\ pc[i] = "done" =>
                /\ calls[i] = tries
                /\ Len(waits[i]) = tries - 1
                /\ (delay = <<1, 2>> /\ backoff = <<2, 1>> /\ tries = 3)
                    => waits[i] = << <<1, 2>>, <<1, 1>> >>

\* test_with_delay: delay 0.5, backoff 2.0, tries 3, always failing
C7_Witness ==
    \E i \in callers :
        /\ delay = <<1, 2>> /\ backoff = <<2, 1>> /\ tries = 3
        /\ pc[i] = "done"
        /\ calls[i] = 3
        /\ Len(hist[i]) = 3
        /\ \A n \in 1..3 : FailedRetryably(i, n)
        /\ waits[i] = << <<1, 2>>, <<1, 1>> >>

-----------------------------------------------------------------------------
(* C8 *)

\* C8: with delay = 0, whatever the backoff, the tries and the outcomes of
\* the attempts, no invocation ever calls time.sleep or asyncio.sleep.
C8_ZeroDelayNeverWaits ==
    delay = <<0, 1>>
    => \A i \in callers : waits[i] = <<>> /\ pc[i] # "sleeping"

\* three failed attempts with delay 0 and backoff 2, and no wait
C8_Witness ==
    \E i \in callers :
        /\ delay = <<0, 1>> /\ backoff = <<2, 1>> /\ tries = 3
        /\ pc[i] = "done"
        /\ calls[i] = 3
        /\ Len(log[i]) = 3
        /\ waits[i] = <<>>

-----------------------------------------------------------------------------
(* C9 *)

\* the wrapper caught the failure of i's n-th attempt (it logged it, as a
\* warning or as the final error)
Handled(i, n) == \E m \in 1..Len(log[i]) : log[i][m].ex = Failure(i, n)

\* C9: the failure of any attempt n is caught by the retry clause iff its
\* kind is, or is a subtype of, a configured kind, whatever n and whatever
\* came before; a caught failure of a non-final attempt is followed by
\* another attempt; under the default `exceptions` every ordinary failure
\* is caught.
C9_RetriedIffKindMatches ==
    \A i \in callers :
        \A n \in 1..Len(hist[i]) :
            hist[i][n].type = "raise"
            => /\ Handled(i, n) <=> Retryable(hist[i][n].kind)
               /\ (Handled(i, n) /\ n < tries /\ pc[i] = "done"
                     /\ ~CancelledInDelay(i))
                  => Len(hist[i]) > n
               /\ (exceptions = {"Exception"} /\ hist[i][n].kind \in RaisedKinds)
                  => Handled(i, n)

\* a ConnectionError caught and retried because OSError is among the two
\* configured kinds, then a second attempt
C9_Witness ==
    \E i \in callers :
        /\ exceptions = {"ValueError", "OSError"}
        /\ Len(hist[i]) >= 2
        /\ hist[i][1] = Raised("ConnectionError")
        /\ Handled(i, 1)
        /\ calls[i] >= 2

-----------------------------------------------------------------------------
(* C10 *)

\* the two invocations saw the same outcome on every attempt both made
SameOutcomes(i, j) ==
    \A n \in 1..Len(hist[i]) :
        n <= Len(hist[j]) => hist[i][n] = hist[j][n]

\* C10: the blocking invocation 1 and the suspending invocation 2, bound with
\* the same configuration to operations with the same outcome per attempt
\* (and no task cancellation): when both are over they have made the same
\* number of calls, the same waits, the same notifications, and have the same
\* result or raised failure; and at equal positions after equally many
\* attempts they have the same waits, notifications and current delay.
C10_ModesEquivalent ==
    (SameOutcomes(1, 2) /\ ~cancelled[2])
    => /\ (pc[1] = "done" /\ pc[2] = "done")
          => /\ calls[1] = calls[2]
             /\ hist[1] = hist[2]
             /\ waits[1] = waits[2]
             /\ log[1] = log[2]
             /\ result[1] = result[2]
       /\ (pc[1] = pc[2] /\ pc[1] # "idle" /\ Len(hist[1]) = Len(hist[2]))
          => /\ calls[1] = calls[2]
             /\ waits[1] = waits[2]
             /\ log[1] = log[2]
             /\ current_delay[1] = current_delay[2]
             /\ attempt[1] = attempt[2]

\* both modes exhausted three tries on the same failures, with two waits
C10_Witness ==
    /\ pc[1] = "done" /\ pc[2] = "done"
    /\ ~cancelled[2]
    /\ tries = 3
    /\ hist[1] = hist[2]
    /\ Len(hist[1]) = 3
    /\ Len(waits[1]) = 2 /\ waits[1] = waits[2]
    /\ Len(log[2]) = 3 /\ log[1] = log[2]
    /\ result[1].type = "raise" /\ result[1] = result[2]

-----------------------------------------------------------------------------
(* C11 *)

\* C11: a wrapper bound with options left out (with none at all, in
\* particular) and a wrapper bound with the same options and tries=5,
\* delay=0, exceptions=Exception, backoff=1.0 written out for the missing
\* ones, on the same outcome per attempt and without cancellation, end with
\* the same calls, waits, notifications, steps and result.
C11_LeftOutIsDefault ==
    ( /\ 2 \in callers
      /\ pc[1] = "done" /\ pc[2] = "done"
      /\ ~cancelled[1] /\ ~cancelled[2]
      /\ SameOutcomes(1, 2) )
    => /\ calls[1] = calls[2]
       /\ hist[1] = hist[2]
       /\ waits[1] = waits[2]
       /\ log[1] = log[2]
       /\ trace[1] = trace[2]
       /\ result[1] = result[2]

\* a bare binding and the binding with the four defaults written out, both
\* exhausted after five failures
C11_Witness ==
    /\ 2 \in callers
    /\ options[1] = NoOptions
    /\ options[2] = ExplicitDefaults
    /\ pc[1] = "done" /\ pc[2] = "done"
    /\ ~cancelled[1] /\ ~cancelled[2]
    /\ calls[1] = 5 /\ calls[2] = 5
    /\ hist[1] = hist[2]
    /\ log[1] = log[2] /\ Len(log[1]) = 5
    /\ result[1].type = "raise" /\ result[1] = result[2]

-----------------------------------------------------------------------------
(* C12 *)

\* the positions of the notifications of a level about the failure of
\* attempt n
Notes(i, level, n) ==
    { m \in 1..Len(log[i]) :
        log[i][m].level = level /\ log[i][m].ex = Failure(i, n) }

\* the notifications of a level
AllNotes(i, level) == { m \in 1..Len(log[i]) : log[i][m].level = level }

\* v hundredths is d0 * b^n rounded to the nearest hundredth
IsRounded(v, d0, b, n) ==
    LET num == 100 * d0[1] * Pow(b[1], n)
        den == d0[2] * Pow(b[2], n)
        diff == IF num >= v * den THEN num - v * den ELSE v * den - num
    IN  2 * diff <= den

\* C12: in an invocation, every retryable failure of a non-final attempt n
\* has exactly one warning, which carries n (1-based), the total tries and
\* the current delay (to two decimals); a retryable failure of the final
\* attempt has exactly one error notification; there are no other
\* notifications; an invocation that succeeds on attempt K has K - 1
\* warnings and no error.
C12_OneNotificationPerFailure ==
    \A i \in callers :
        /\ \A n \in 1..Len(hist[i]) :
            /\ (FailedRetryably(i, n) /\ n < tries)
               => /\ Cardinality(Notes(i, "warning", n)) = 1
                  /\ Notes(i, "error", n) = {}
                  /\ \A m \in Notes(i, "warning", n) :
                        /\ m = n
                        /\ log[i][m].attempt = n
                        /\ log[i][m].tries = tries
                        /\ IsRounded(log[i][m].delay, delay, backoff, n - 1)
            /\ (FailedRetryably(i, n) /\ n = tries)
               => /\ Cardinality(Notes(i, "error", n)) = 1
                  /\ Notes(i, "warning", n) = {}
                  /\ \A m \in Notes(i, "error", n) :
                        m = n /\ log[i][m].tries = tries
            /\ ~FailedRetryably(i, n)
               => Notes(i, "warning", n) = {} /\ Notes(i, "error", n) = {}
            /\ hist[i][n].type = "return"
               => /\ Cardinality(AllNotes(i, "warning")) = n - 1
                  /\ AllNotes(i, "error") = {}
        /\ \A m \in 1..Len(log[i]) :
            /\ log[i][m].level \in {"warning", "error"}
            /\ log[i][m].ex.id \in 1..Len(hist[i])
            /\ log[i][m].ex = Failure(i, log[i][m].ex.id)
        /\ Cardinality(AllNotes(i, "error")) <= 1

\* fail, fail, return 42 with tries = 3: 42 returned, three calls, two
\* warnings, no error
C12_Witness ==
    \E i \in callers :
        /\ tries = 3
        /\ pc[i] = "done"
        /\ calls[i] = 3
        /\ Len(hist[i]) = 3
        /\ hist[i][1] = Raised("ConnectionError")
        /\ hist[i][2] = Raised("ConnectionError")
        /\ hist[i][3] = Returned(42)
        /\ result[i] = ReturnStmt(42)
        /\ Cardinality(AllNotes(i, "warning")) = 2
        /\ AllNotes(i, "error") = {}

-----------------------------------------------------------------------------
(* C13 *)

\* the positions of the step ev of attempt n in i's trace
At(i, ev, n) == { p \in 1..Len(trace[i]) : trace[i][p] = <<ev, n>> }

\* C13: in either mode an invocation has at most one attempt in progress,
\* and only while it is at the call; during the delay none is.  The call of
\* attempt n + 1 comes after the outcome of attempt n was caught, and, when a
\* delay was begun after attempt n, after that delay has elapsed.
C13_AttemptsSequential ==
    \A i \in callers :
        /\ calls[i] - Len(hist[i]) = IF pc[i] = "calling" THEN 1 ELSE 0
        /\ pc[i] = "sleeping" => calls[i] = Len(hist[i])
        /\ \A p \in 1..Len(trace[i]) :
            (trace[i][p][1] = "call" /\ trace[i][p][2] >= 2)
            => LET n == trace[i][p][2] - 1 IN
               /\ \E q \in At(i, "caught", n) : q < p
               /\ \A q \in At(i, "sleep", n) :
                    \E w \in At(i, "woke", n) : q < w /\ w < p
               /\ \A q \in At(i, "call", n) : q < p
        /\ \A n \in 1..calls[i] : Cardinality(At(i, "call", n)) = 1

\* a suspending invocation at its third call, after two elapsed delays
C13_Witness ==
    \E i \in callers :
        /\ coroutine[i]
        /\ pc[i] = "calling"
        /\ calls[i] = 3
        /\ Len(waits[i]) = 2
        /\ Cardinality(At(i, "woke", 2)) = 1

-----------------------------------------------------------------------------
(* C14 *)

\* what belongs to the invocation i alone
Own(i) ==
    <<pc[i], attempt[i], current_delay[i], last_exception[i], calls[i],
      hist[i], waits[i], log[i], result[i], cancelled[i], trace[i]>>

\* the attempts of i whose retryable failure has been taken in by the loop
TakenIn(i) ==
    { n \in 1..Len(hist[i]) : FailedRetryably(i, n) }

\* the attempt counter, the current delay and the last failure of i are what
\* an invocation running alone has after the outcomes i itself has seen
AsIfAlone(i) ==
    pc[i] \in {"loop", "calling", "sleeping"} =>
        LET seen == Cardinality(TakenIn(i))
            gone == IF pc[i] = "sleeping" THEN seen - 1 ELSE seen
        IN /\ seen = Len(hist[i])
           /\ attempt[i] = gone
           /\ IsScaled(current_delay[i], delay, backoff,
                       IF gone >= tries THEN tries - 1 ELSE gone)
           /\ last_exception[i] =
                IF seen = 0 THEN None ELSE Failure(i, seen)

\* C14: when two invocations of one bound operation run concurrently (threads
\* in the blocking mode, tasks in the suspending mode), every step changes the
\* attempt counter, current delay, last failure and observations of one
\* invocation only and leaves the configuration as it was bound, and each
\* invocation's counter, delay and last failure are at all times the ones it
\* would have running alone with the outcomes it has seen itself.
C14_InvocationsIndependent ==
    /\ [](\A i \in callers : AsIfAlone(i))
    /\ [][ /\ <<tries, delay, exceptions, backoff>>' =
              <<tries, delay, exceptions, backoff>>
           /\ \A i, j \in callers :
                (i # j /\ Own(i)' # Own(i)) => Own(j)' = Own(j) ]_vars

\* one invocation is in its second delay while the other one, started with the
\* same binding, is still in its first attempt
C14_Witness ==
    /\ callers = {1, 2}
    /\ pc[1] = "sleeping" /\ attempt[1] = 1 /\ Len(waits[1]) = 2
    /\ pc[2] = "calling" /\ attempt[2] = 0 /\ calls[2] = 1
    /\ current_delay[1] # current_delay[2]

-----------------------------------------------------------------------------
(* C15 *)

\* C15: whatever the earlier invocations of a bound operation did, a later
\* invocation makes its first attempt with attempt counter 0, the configured
\* initial delay as current delay and no last failure, its counter and delay
\* follow its own outcomes only (so its first wait is the initial delay), and
\* invoking never changes the bound configuration.
C15_InvocationStartsAfresh ==
    /\ [](\A i \in callers :
            round[i] >= 2 =>
                /\ (pc[i] = "calling" /\ calls[i] = 1) =>
                       /\ attempt[i] = 0
                       /\ current_delay[i] = delay
                       /\ last_exception[i] = None
                /\ pc[i] # "idle" => AsIfAlone(i)
                /\ waits[i] # <<>> => waits[i][1] = delay)
    /\ [][<<tries, delay, exceptions, backoff>>' =
            <<tries, delay, exceptions, backoff>>]_vars

\* the first attempt of a second invocation, after a first invocation that
\* waited twice with a growing delay
C15_Witness ==
    \E i \in callers :
        /\ round[i] = 2 /\ pc[i] = "calling" /\ calls[i] = 1
        /\ delay = <<1, 2>> /\ backoff = <<2, 1>>
        /\ At(i, "woke", 2) # {}
        /\ At(i, "again", 2) # {}

-----------------------------------------------------------------------------
(* C16 *)

\* the retryable failures of i on an attempt that is not the final one
Retried(i) ==
    { n \in 1..Len(hist[i]) : FailedRetryably(i, n) /\ n < tries }

\* the wait performed after the failure of attempt n, which was waited for
WaitAfter(i, n) ==
    waits[i][Cardinality({ m \in 1..n : At(i, "sleep", m) # {} })]

\* the delay the warning for the failure of attempt n reports, in hundredths
Reported(i, n) ==
    log[i][CHOOSE m \in Notes(i, "warning", n) : TRUE].delay

\* v hundredths is the duration w rounded to the nearest hundredth
IsNearest(v, w) ==
    LET diff == IF 100 * w[1] >= v * w[2] THEN 100 * w[1] - v * w[2]
                ELSE v * w[2] - 100 * w[1]
    IN  2 * diff <= w[2]

\* the steps taken for the retried failure of attempt n, from position p of
\* the steps of i on: classified, warned, waited if the delay is positive,
\* multiplied, next attempt; nothing in between, nothing twice
InOrderFrom(i, n, p) ==
    LET len == Len(trace[i])
        due == delay[1] > 0 /\ (n = 1 \/ backoff[1] > 0)
    IN  /\ At(i, "caught", n) = {p}
        /\ At(i, "warning", n) = {p + 1}
        /\ Cardinality(Notes(i, "warning", n)) = 1
        /\ At(i, "error", n) = {} /\ At(i, "propagate", n) = {}
        /\ At(i, "sleep", n) = IF due THEN {p + 2} ELSE {}
        /\ IF due
           THEN /\ len >= p + 3 =>
                     /\ trace[i][p + 3] \in {<<"woke", n>>, <<"cancelled", n>>}
                     /\ trace[i][p + 3][1] = "woke" =>
                            /\ len >= p + 4
                            /\ At(i, "scale", n) = {p + 4}
                            /\ len >= p + 5 => At(i, "call", n + 1) = {p + 5}
                     /\ trace[i][p + 3][1] = "cancelled" =>
                            len = p + 3 /\ pc[i] = "done"
                /\ len = p + 2 =>
                     pc[i] = "sleeping" /\ At(i, "call", n + 1) = {}
           ELSE /\ At(i, "scale", n) = {p + 2}
                /\ At(i, "woke", n) = {}
                /\ len >= p + 3 => At(i, "call", n + 1) = {p + 3}

\* C16 as stated: on a retryable failure of a non-final attempt the steps
\* happen in the stated order, each exactly once, and the delay the warning
\* reports is exactly the wait performed before the next attempt.
C16_ReportedIsWaited ==
    \A i \in callers : \A n \in Retried(i) :
        /\ \E p \in 1..Len(trace[i]) : InOrderFrom(i, n, p)
        /\ IF At(i, "sleep", n) # {}
           THEN 100 * WaitAfter(i, n)[1] = Reported(i, n) * WaitAfter(i, n)[2]
           ELSE Reported(i, n) = 0

\* C16, amended: on a retryable failure of a non-final attempt the steps
\* happen in this order, each exactly once: the failure is classified, the
\* warning is emitted, the wait of the current delay is performed (only if it
\* is > 0), the current delay is multiplied by backoff, the next attempt
\* starts; the delay the warning reports is the wait performed before the
\* next attempt rounded to two decimal places (0.00 when no wait is performed).
C16_StepsInOrder ==
    \A i \in callers : \A n \in Retried(i) :
        /\ \E p \in 1..Len(trace[i]) : InOrderFrom(i, n, p)
        /\ IF At(i, "sleep", n) # {}
           THEN IsNearest(Reported(i, n), WaitAfter(i, n))
           ELSE Reported(i, n) = 0

\* a wait of 0.125 was performed after a warning that reported 0.12, and the
\* second attempt has started
C16_Witness ==
    \E i \in callers :
        /\ pc[i] = "calling" /\ calls[i] = 2
        /\ waits[i] = << <<1, 8>> >>
        /\ Reported(i, 1) = 12
        /\ trace[i] = << <<"enter", 0>>, <<"call", 1>>, <<"caught", 1>>,
                         <<"warning", 1>>, <<"sleep", 1>>, <<"woke", 1>>,
                         <<"scale", 1>>, <<"call", 2>> >>

-----------------------------------------------------------------------------
(* C17 *)

\* C17: while an attempt of an invocation is in progress its 0-based index
\* is at least 0 and less than tries, it is the number of attempts made
\* before, and the current delay is the initial delay times backoff to the
\* power of the index: every retried failure before it multiplied the delay
\* exactly once, whether or not a wait was performed for it.
C17_IndexAndDelayAtAttempt ==
    \A i \in callers :
        pc[i] = "calling" =>
            /\ 0 <= attempt[i] /\ attempt[i] < tries
            /\ attempt[i] = calls[i] - 1
            /\ IsScaled(current_delay[i], delay, backoff, attempt[i])
            /\ \A n \in 1..attempt[i] :
                  /\ Cardinality(At(i, "scale", n)) = 1
                  /\ Cardinality(At(i, "sleep", n)) <= 1

\* the third attempt is in progress after a first failure that was waited
\* for (0.5 s) and a second one whose wait was skipped, the delay having
\* become 0: the delay was multiplied both times
C17_Witness ==
    \E i \in callers :
        /\ pc[i] = "calling" /\ attempt[i] = 2
        /\ delay = <<1, 2>> /\ backoff = <<0, 1>>
        /\ waits[i] = << <<1, 2>> >>
        /\ At(i, "sleep", 2) = {} /\ At(i, "scale", 2) # {}
        /\ current_delay[i] = <<0, 1>>

-----------------------------------------------------------------------------
(* C18 *)

\* C18: provided every attempt of the operation terminates, every invocation
\* terminates, returning a value or raising a failure, and whatever the
\* outcomes of the attempts are it never invokes the operation more than tries
\* times (for tries >= 0; the invocation is over once it has an outcome).
C18_TerminatesWithinTries ==
    /\ [](\A i \in callers :
            /\ calls[i] <= tries
            /\ Len(hist[i]) <= tries
            /\ pc[i] = "done" <=> result[i].type \in {"return", "raise"})
    /\ <>[](\A i \in callers :
              pc[i] = "done" /\ result[i].type \in {"return", "raise"})

\* an invocation that ended after exactly tries = 3 calls, in either way
C18_Witness ==
    \E i \in callers :
        /\ pc[i] = "done" /\ tries = 3 /\ calls[i] = 3 /\ Len(hist[i]) = 3
        /\ result[i].type \in {"return", "raise"}
        /\ Len(waits[i]) = 2 /\ Len(log[i]) >= 2

-----------------------------------------------------------------------------
(* C19 *)

\* the positions in the steps of i where a wait begins
Sleeps(i) == { p \in 1..Len(trace[i]) : trace[i][p][1] = "sleep" }

\* C19: a wait is performed only between two attempts.  Every wait begins
\* right after the warning for a retryable failure of an attempt n that is
\* not the final one (so after the first attempt has been made), and when it
\* has ended the delay is multiplied and attempt n + 1 starts; nothing is
\* waited for after a return, after a failure that is not retryable or after
\* the error notification; the waits are the recorded ones, at most
\* tries - 1 of them (none when tries < 1); and an invocation that has
\* emitted the error notification raises that failure as its next step.
C19_WaitsOnlyBetweenAttempts ==
    \A i \in callers :
        LET len == Len(trace[i]) IN
        /\ \A p \in Sleeps(i) :
              LET n == trace[i][p][2] IN
              /\ n \in Retried(i)
              /\ p >= 4
              /\ trace[i][p - 1] = <<"warning", n>>
              /\ trace[i][p - 2] = <<"caught", n>>
              /\ trace[i][p - 3] = <<"call", n>>
              /\ \E q \in 1..(p - 1) : trace[i][q] = <<"call", 1>>
              /\ len = p => pc[i] = "sleeping"
              /\ len > p =>
                    \/ trace[i][p + 1] = <<"cancelled", n>> /\ len = p + 1
                    \/ /\ trace[i][p + 1] = <<"woke", n>>
                       /\ len >= p + 2 /\ trace[i][p + 2] = <<"scale", n>>
                       /\ len >= p + 3 => trace[i][p + 3] = <<"call", n + 1>>
        /\ pc[i] = "sleeping" => len \in Sleeps(i)
        /\ \A p \in 1..len : \A q \in (p + 1)..len :
              trace[i][p][1] \in {"return", "propagate", "error"}
              => trace[i][q][1] \notin {"sleep", "woke"}
        /\ \A p \in 1..len :
              trace[i][p][1] = "error" =>
                  /\ trace[i][p][2] = tries
                  /\ len = p => pc[i] = "loop"
                  /\ len > p =>
                        /\ len = p + 1
                        /\ trace[i][p + 1] = <<"raise", tries>>
                        /\ pc[i] = "done"
                        /\ result[i] = RaiseStmt(Failure(i, tries))
        /\ Len(waits[i]) = Cardinality(Sleeps(i))
        /\ Len(waits[i]) <= (IF tries >= 1 THEN tries - 1 ELSE 0)

\* tries = 2, delay 0.125: the first failure was waited for, the second one
\* was followed by the error notification and the raise, with no second wait
C19_Witness ==
    \E i \in callers :
        /\ tries = 2 /\ delay = <<1, 8>>
        /\ pc[i] = "done"
        /\ waits[i] = << <<1, 8>> >>
        /\ trace[i] = << <<"enter", 0>>, <<"call", 1>>, <<"caught", 1>>,
                         <<"warning", 1>>, <<"sleep", 1>>, <<"woke", 1>>,
                         <<"scale", 1>>, <<"call", 2>>, <<"caught", 2>>,
                         <<"error", 2>>, <<"raise", 2>> >>

=============================================================================
